---- MODULE Spec2Model ----
(***************************************************************************)
(* Model of the four example scripts of EnergyFlow (src/examples):         *)
(*   dnn_example.py, efp_example.py, test_efp.py, test_cnn.py.             *)
(* Every script is a straight-line program; a step of the model is one     *)
(* statement (or one block of adjacent statements) of the running script.  *)
(* Calls into energyflow, cepc, keras, scikit-learn and matplotlib are     *)
(* assumed to return normally; what is recorded of them is the arguments   *)
(* the script passes and the order in which it calls them.                 *)
(***************************************************************************)
EXTENDS Integers, Sequences, FiniteSets, TLC

VARIABLES
    script,        \* the script being run
    pc,            \* the statement the script is at
    runs,          \* number of script runs started so far
    have_sklearn,  \* environment: scikit-learn is importable
    have_mpl,      \* environment: matplotlib is importable
    roc_curve,     \* the name roc_curve: "unbound", "function" or "False"
    plt,           \* the name plt: "unbound", "module" or "False"
    X,             \* the array bound to X
    efpset,        \* the dmax the EFPSet was built with (-1: no EFPSet)
    i,             \* 0-based position of the sweep / plot loop
    model,         \* the object bound to model / dnn / cnn
    model_ctr,     \* number of model objects constructed in this run
    X_d,           \* columns selected for the current sweep value
    X_train, X_val, X_test,   \* the partitions returned by data_split
    preds,         \* the array returned by predict
    rocs,          \* the list rocs (test_cnn.py: the CNN curve, if computed)
    base_rocs,     \* test_cnn.py: the jet-mass and multiplicity curves
    fig,           \* the current matplotlib figure
    files,         \* file system: file name -> scripts that wrote it
    saved,         \* file name -> the figure as last written to the file
    calls,         \* the library calls made in this run, in order
    err            \* the exception that ended the run ("none": no exception)

env   == <<script, runs, have_sklearn, have_mpl>>
flags == <<roc_curve, plt>>
data  == <<X, efpset>>
sweep == <<i, model, model_ctr, X_d, X_train, X_val, X_test, preds>>
curves == <<rocs, base_rocs>>
out   == <<fig, files, saved>>
vars  == <<script, pc, runs, have_sklearn, have_mpl, roc_curve, plt, X, efpset,
           i, model, model_ctr, X_d, X_train, X_val, X_test, preds, rocs,
           base_rocs, fig, files, saved, calls, err>>

\* bound of the model: how many script runs are started one after another
MaxRuns == 2

Scripts == {"dnn_example", "efp_example", "test_efp", "test_cnn"}

--------------------------------------------------------------------------
\* Settings of the scripts

Dnn_num_nsubs == <<1, 2, 4, 8, 16, 32>>
Dnn_colors == <<"tab:red", "tab:orange", "tab:olive", "tab:green", "tab:blue", "tab:purple">>
Dnn_file == "dnn_example.jpg"

Efp_dmax == 5
Efp_colors_short == <<"tab:red", "tab:orange", "tab:olive", "tab:green">>
Efp_colors == <<"tab:red", "tab:orange", "tab:olive", "tab:green", "tab:blue">>
Efp_file == "efp_example.jpg"

TEfp_dmax == 4
TEfp_colors == <<"tab:red", "tab:orange", "tab:olive", "tab:green", "tab:blue", "tab:black">>
TEfp_file_clash == "efp_example.jpg"
TEfp_file == "cepc.jpg"

Cnn_file == "test_cnn.jpg"

FileNames == {Dnn_file, Efp_file, TEfp_file, Cnn_file}

--------------------------------------------------------------------------
\* Values

NoData == [part |-> "none", feat |-> {}]
NoModel == [id |-> 0, input_dim |-> -1, fit_on |-> NoData, val_on |-> NoData]
NoPreds == [model |-> NoModel, on |-> NoData]
NoFig == [curves |-> <<>>, rc |-> FALSE, labels |-> FALSE, limits |-> FALSE,
          legend |-> FALSE, shown |-> FALSE]

\* Python truthiness of the values the names roc_curve and plt can hold
Truthy(v) == v \in {"function", "module"}

\* range(a, b) as a sequence
Range(a, b) == [k \in 1..(b - a) |-> a + k - 1]

\* a library call, as recorded in calls: the function, the sweep iteration
\* (0-based position, -1 outside the sweep loop) and the data handed to it
Call(op, it, arg) == [op |-> op, it |-> it, arg |-> arg]

MetricOps == {"roc_curve", "roc_auc_score"}
PlotOps == {"rcParams", "plot", "xlabel", "ylabel", "xlim", "ylim", "legend",
            "savefig", "show"}

\* plt.plot(...) adds a curve to the current figure
Plot(f, roc, color, label) ==
    [f EXCEPT !.curves = Append(@, [roc |-> roc, color |-> color, label |-> label])]

\* plt.savefig(name), called by script s
Savefig(name, s) ==
    /\ files' = [files EXCEPT ![name] = @ \cup {s}]
    /\ saved' = [saved EXCEPT ![name] = fig]

--------------------------------------------------------------------------
Init ==
    /\ script = "none" /\ pc = "idle" /\ runs = 0
    /\ have_sklearn = FALSE /\ have_mpl = FALSE
    /\ roc_curve = "unbound" /\ plt = "unbound"
    /\ X = NoData /\ efpset = -1
    /\ i = 0 /\ model = NoModel /\ model_ctr = 0 /\ X_d = NoData
    /\ X_train = NoData /\ X_val = NoData /\ X_test = NoData
    /\ preds = NoPreds /\ rocs = <<>> /\ base_rocs = <<>>
    /\ fig = NoFig
    /\ files = [f \in FileNames |-> {}]
    /\ saved = [f \in FileNames |-> NoFig]
    /\ calls = <<>> /\ err = "none"

\* A script is started (python <script>.py) in a fresh interpreter; the
\* files of earlier runs stay.
Start ==
    /\ pc \in {"idle", "done", "raised"}
    /\ runs < MaxRuns
    /\ \E s \in Scripts, sk \in BOOLEAN, mp \in BOOLEAN :
          /\ script' = s /\ have_sklearn' = sk /\ have_mpl' = mp
    /\ runs' = runs + 1
    /\ pc' = "import_sklearn"
    /\ roc_curve' = "unbound" /\ plt' = "unbound"
    /\ X' = NoData /\ efpset' = -1
    /\ i' = 0 /\ model' = NoModel /\ model_ctr' = 0 /\ X_d' = NoData
    /\ X_train' = NoData /\ X_val' = NoData /\ X_test' = NoData
    /\ preds' = NoPreds /\ rocs' = <<>> /\ base_rocs' = <<>>
    /\ fig' = NoFig
    /\ calls' = <<>> /\ err' = "none"
    /\ UNCHANGED <<files, saved>>

At(s, l) == script = s /\ pc = l

--------------------------------------------------------------------------
\* dnn_example.py

\* try: from sklearn.metrics import roc_auc_score, roc_curve
\* except: roc_curve = False
dnn_import_sklearn ==
    /\ At("dnn_example", "import_sklearn")
    /\ roc_curve' = IF have_sklearn THEN "function" ELSE "False"
    /\ pc' = "import_plt"
    /\ UNCHANGED <<env, plt, data, sweep, curves, out, calls, err>>

\* try: import matplotlib.pyplot as plt
\* except: plt = False
dnn_import_plt ==
    /\ At("dnn_example", "import_plt")
    /\ plt' = IF have_mpl THEN "module" ELSE "False"
    /\ pc' = "load"
    /\ UNCHANGED <<env, roc_curve, data, sweep, curves, out, calls, err>>

\* the columns of the N-subjettiness dataset: at least as many as the
\* largest sweep value asks for
Dnn_columns == 0..(Dnn_num_nsubs[Len(Dnn_num_nsubs)] - 1)

\* X, y = qg_nsubs.load(num_data=num_data); Y = to_categorical(y, ...)
dnn_load ==
    /\ At("dnn_example", "load")
    /\ X' = [part |-> "full", feat |-> Dnn_columns]
    /\ calls' = calls \o <<Call("load", -1, "none"), Call("to_categorical", -1, "y")>>
    /\ rocs' = <<>>
    /\ i' = 0
    /\ pc' = "loop"
    /\ UNCHANGED <<env, flags, efpset, model, model_ctr, X_d, X_train, X_val,
                   X_test, preds, base_rocs, out, err>>

\* for i,num_nsub in enumerate(num_nsubs): dnn = DNN(input_dim=num_nsub, ...)
dnn_build ==
    /\ At("dnn_example", "loop")
    /\ i < Len(Dnn_num_nsubs)
    /\ model_ctr' = model_ctr + 1
    /\ model' = [NoModel EXCEPT !.id = model_ctr + 1,
                                !.input_dim = Dnn_num_nsubs[i + 1]]
    /\ calls' = Append(calls, Call("DNN", i, "none"))
    /\ pc' = "split"
    /\ UNCHANGED <<env, flags, data, i, X_d, X_train, X_val, X_test, preds,
                   curves, out, err>>

\* the sweep loop is exhausted
dnn_loop_exit ==
    /\ At("dnn_example", "loop")
    /\ i >= Len(Dnn_num_nsubs)
    /\ pc' = "if_plt"
    /\ UNCHANGED <<env, flags, data, sweep, curves, out, calls, err>>

\* (X_train, X_val, X_test, Y_train, Y_val, Y_test) =
\*     data_split(X[:,:num_nsub], Y, val=val_frac, test=test_frac)
dnn_split ==
    /\ At("dnn_example", "split")
    /\ LET cols == {c \in X.feat : c < Dnn_num_nsubs[i + 1]} IN
          /\ X_train' = [part |-> "train", feat |-> cols]
          /\ X_val' = [part |-> "val", feat |-> cols]
          /\ X_test' = [part |-> "test", feat |-> cols]
    /\ calls' = Append(calls, Call("data_split", i, "X"))
    /\ pc' = "fit"
    /\ UNCHANGED <<env, flags, data, i, model, model_ctr, X_d, preds, curves,
                   out, err>>

\* dnn.fit(X_train, Y_train, ..., validation_data=(X_val, Y_val), ...)
dnn_fit ==
    /\ At("dnn_example", "fit")
    /\ model' = [model EXCEPT !.fit_on = X_train, !.val_on = X_val]
    /\ calls' = Append(calls, Call("fit", i, "X_train"))
    /\ pc' = "predict"
    /\ UNCHANGED <<env, flags, data, i, model_ctr, X_d, X_train, X_val, X_test,
                   preds, curves, out, err>>

\* dnn_predict asking for the predictions on the training data
dnn_predict_on_train ==
    /\ At("dnn_example", "predict")
    /\ preds' = [model |-> model, on |-> X_train]
    /\ calls' = Append(calls, Call("predict", i, "X_train"))
    /\ pc' = "roc"
    /\ UNCHANGED <<env, flags, data, i, model, model_ctr, X_d, X_train, X_val,
                   X_test, curves, out, err>>

\* preds = dnn.predict(X_test, batch_size=1000)
dnn_predict ==
    /\ At("dnn_example", "predict")
    /\ preds' = [model |-> model, on |-> X_test]
    /\ calls' = Append(calls, Call("predict", i, "X_test"))
    /\ pc' = "roc"
    /\ UNCHANGED <<env, flags, data, i, model, model_ctr, X_d, X_train, X_val,
                   X_test, curves, out, err>>

\* dnn_roc without its guard: the metrics are called whatever roc_curve holds
dnn_roc_unguarded ==
    /\ At("dnn_example", "roc")
    /\ rocs' = Append(rocs, [y |-> X_test.part, scores |-> preds])
    /\ calls' = calls \o <<Call("roc_curve", i, "preds"),
                           Call("roc_auc_score", i, "preds")>>
    /\ i' = i + 1
    /\ pc' = "loop"
    /\ UNCHANGED <<env, flags, data, model, model_ctr, X_d, X_train, X_val,
                   X_test, preds, base_rocs, out, err>>

\* if roc_curve: rocs.append(roc_curve(Y_test[:,1], preds[:,1]))
\*               auc = roc_auc_score(Y_test[:,1], preds[:,1])
\* and the loop goes to its next entry
dnn_roc ==
    /\ At("dnn_example", "roc")
    /\ IF Truthy(roc_curve)
         THEN /\ rocs' = Append(rocs, [y |-> X_test.part, scores |-> preds])
              /\ calls' = calls \o <<Call("roc_curve", i, "preds"),
                                     Call("roc_auc_score", i, "preds")>>
         ELSE UNCHANGED <<rocs, calls>>
    /\ i' = i + 1
    /\ pc' = "loop"
    /\ UNCHANGED <<env, flags, data, model, model_ctr, X_d, X_train, X_val,
                   X_test, preds, base_rocs, out, err>>

\* if plt: plt.rcParams[...] = ... ; otherwise the script ends
dnn_if_plt ==
    /\ At("dnn_example", "if_plt")
    /\ IF Truthy(plt)
         THEN /\ fig' = [fig EXCEPT !.rc = TRUE]
              /\ calls' = Append(calls, Call("rcParams", -1, "none"))
              /\ i' = 0
              /\ pc' = "plot_loop"
         ELSE /\ pc' = "done"
              /\ UNCHANGED <<fig, calls, i>>
    /\ UNCHANGED <<env, flags, data, model, model_ctr, X_d, X_train, X_val,
                   X_test, preds, curves, files, saved, err>>

\* for i in range(len(rocs)):
\*     plt.plot(rocs[i][1], 1-rocs[i][0], '-', color=colors[i],
\*              label='DNN: {} N-subs'.format(num_nsubs[i]))
dnn_plot ==
    /\ At("dnn_example", "plot_loop")
    /\ i < Len(rocs)
    /\ IF i < Len(Dnn_colors) /\ i < Len(Dnn_num_nsubs)
         THEN /\ fig' = Plot(fig, rocs[i + 1], Dnn_colors[i + 1], Dnn_num_nsubs[i + 1])
              /\ calls' = Append(calls, Call("plot", i, "rocs"))
              /\ i' = i + 1
              /\ UNCHANGED <<pc, err>>
         ELSE /\ err' = "IndexError" /\ pc' = "raised"
              /\ UNCHANGED <<fig, calls, i>>
    /\ UNCHANGED <<env, flags, data, model, model_ctr, X_d, X_train, X_val,
                   X_test, preds, curves, files, saved>>

\* after the plot loop: plt.xlabel, plt.ylabel, plt.xlim, plt.ylim, plt.legend
dnn_axes ==
    /\ At("dnn_example", "plot_loop")
    /\ i >= Len(rocs)
    /\ fig' = [fig EXCEPT !.labels = TRUE, !.limits = TRUE, !.legend = TRUE]
    /\ calls' = calls \o <<Call("xlabel", -1, "none"), Call("ylabel", -1, "none"),
                           Call("xlim", -1, "none"), Call("ylim", -1, "none"),
                           Call("legend", -1, "none")>>
    /\ pc' = "savefig"
    /\ UNCHANGED <<env, flags, data, sweep, curves, files, saved, err>>

\* plt.savefig("dnn_example.jpg")
dnn_savefig ==
    /\ At("dnn_example", "savefig")
    /\ Savefig(Dnn_file, script)
    /\ calls' = Append(calls, Call("savefig", -1, "none"))
    /\ pc' = "show"
    /\ UNCHANGED <<env, flags, data, sweep, curves, fig, err>>

\* plt.show()
dnn_show ==
    /\ At("dnn_example", "show")
    /\ fig' = [fig EXCEPT !.shown = TRUE]
    /\ calls' = Append(calls, Call("show", -1, "none"))
    /\ pc' = "done"
    /\ UNCHANGED <<env, flags, data, sweep, curves, files, saved, err>>

dnn_example ==
    \/ dnn_import_sklearn \/ dnn_import_plt \/ dnn_load \/ dnn_build
    \/ dnn_loop_exit \/ dnn_split \/ dnn_fit \/ dnn_predict \/ dnn_roc
    \/ dnn_if_plt \/ dnn_plot \/ dnn_axes \/ dnn_savefig \/ dnn_show

--------------------------------------------------------------------------
\* efp_example.py

\* efpset.sel(('d<=', d)): the columns of the EFPs of degree <= d.  A column
\* of the EFP array is identified by the degree of its EFP.
Efp_sel(cols, d) == {c \in cols : c <= d}

\* try: from sklearn.metrics import roc_auc_score, roc_curve
\* except: roc_curve = False
efp_import_sklearn ==
    /\ At("efp_example", "import_sklearn")
    /\ roc_curve' = IF have_sklearn THEN "function" ELSE "False"
    /\ pc' = "import_plt"
    /\ UNCHANGED <<env, plt, data, sweep, curves, out, calls, err>>

\* try: import matplotlib.pyplot as plt
\* except: plt = False
efp_import_plt ==
    /\ At("efp_example", "import_plt")
    /\ plt' = IF have_mpl THEN "module" ELSE "False"
    /\ pc' = "load"
    /\ UNCHANGED <<env, roc_curve, data, sweep, curves, out, calls, err>>

\* X, y = qg_jets.load(num_data)
efp_load ==
    /\ At("efp_example", "load")
    /\ X' = [part |-> "full", feat |-> {}]
    /\ calls' = Append(calls, Call("load", -1, "none"))
    /\ pc' = "efps"
    /\ UNCHANGED <<env, flags, efpset, sweep, curves, out, err>>

\* efpset = ef.EFPSet(('d<=', dmax), ...); X = efpset.batch_compute(masked_X)
\* rocs = []
efp_efps ==
    /\ At("efp_example", "efps")
    /\ efpset' = Efp_dmax
    /\ X' = [part |-> X.part, feat |-> 0..Efp_dmax]
    /\ calls' = calls \o <<Call("EFPSet", -1, "none"), Call("batch_compute", -1, "X")>>
    /\ rocs' = <<>>
    /\ i' = 0
    /\ pc' = "loop"
    /\ UNCHANGED <<env, flags, model, model_ctr, X_d, X_train, X_val, X_test,
                   preds, base_rocs, out, err>>

\* for d in range(1, dmax+1): model = LinearClassifier(linclass_type='lda')
efp_build ==
    /\ At("efp_example", "loop")
    /\ i < Len(Range(1, Efp_dmax + 1))
    /\ model_ctr' = model_ctr + 1
    /\ model' = [NoModel EXCEPT !.id = model_ctr + 1]
    /\ calls' = Append(calls, Call("LinearClassifier", i, "none"))
    /\ pc' = "select"
    /\ UNCHANGED <<env, flags, data, i, X_d, X_train, X_val, X_test, preds,
                   curves, out, err>>

\* the sweep loop is exhausted
efp_loop_exit ==
    /\ At("efp_example", "loop")
    /\ i >= Len(Range(1, Efp_dmax + 1))
    /\ pc' = "if_plt"
    /\ UNCHANGED <<env, flags, data, sweep, curves, out, calls, err>>

\* efp_select keeping every column of X
efp_select_all ==
    /\ At("efp_example", "select")
    /\ X_d' = X
    /\ calls' = Append(calls, Call("sel", i, "X"))
    /\ pc' = "split"
    /\ UNCHANGED <<env, flags, data, i, model, model_ctr, X_train, X_val,
                   X_test, preds, curves, out, err>>

\* X_d = X[:,efpset.sel(('d<=', d))]
efp_select ==
    /\ At("efp_example", "select")
    /\ X_d' = [part |-> X.part, feat |-> Efp_sel(X.feat, Range(1, Efp_dmax + 1)[i + 1])]
    /\ calls' = Append(calls, Call("sel", i, "X"))
    /\ pc' = "split"
    /\ UNCHANGED <<env, flags, data, i, model, model_ctr, X_train, X_val,
                   X_test, preds, curves, out, err>>

\* (X_train, X_test, y_train, y_test) = data_split(X_d, y, val=0, test=test_frac)
efp_split ==
    /\ At("efp_example", "split")
    /\ X_train' = [part |-> "train", feat |-> X_d.feat]
    /\ X_test' = [part |-> "test", feat |-> X_d.feat]
    /\ calls' = Append(calls, Call("data_split", i, "X_d"))
    /\ pc' = "fit"
    /\ UNCHANGED <<env, flags, data, i, model, model_ctr, X_d, X_val, preds,
                   curves, out, err>>

\* model.fit(X_train, y_train)
efp_fit ==
    /\ At("efp_example", "fit")
    /\ model' = [model EXCEPT !.fit_on = X_train]
    /\ calls' = Append(calls, Call("fit", i, "X_train"))
    /\ pc' = "predict"
    /\ UNCHANGED <<env, flags, data, i, model_ctr, X_d, X_train, X_val, X_test,
                   preds, curves, out, err>>

\* preds = model.predict(X_test)
efp_predict ==
    /\ At("efp_example", "predict")
    /\ preds' = [model |-> model, on |-> X_test]
    /\ calls' = Append(calls, Call("predict", i, "X_test"))
    /\ pc' = "roc"
    /\ UNCHANGED <<env, flags, data, i, model, model_ctr, X_d, X_train, X_val,
                   X_test, curves, out, err>>

\* efp_roc putting the new curve at the front of rocs
efp_roc_prepend ==
    /\ At("efp_example", "roc")
    /\ IF Truthy(roc_curve)
         THEN /\ rocs' = <<[y |-> X_test.part, scores |-> preds]>> \o rocs
              /\ calls' = calls \o <<Call("roc_curve", i, "preds"),
                                     Call("roc_auc_score", i, "preds")>>
         ELSE UNCHANGED <<rocs, calls>>
    /\ i' = i + 1
    /\ pc' = "loop"
    /\ UNCHANGED <<env, flags, data, model, model_ctr, X_d, X_train, X_val,
                   X_test, preds, base_rocs, out, err>>

\* if roc_curve: rocs.append(roc_curve(y_test, preds[:,1]))
\*               auc = roc_auc_score(y_test, preds[:,1])
\* and the loop goes to its next d
efp_roc ==
    /\ At("efp_example", "roc")
    /\ IF Truthy(roc_curve)
         THEN /\ rocs' = Append(rocs, [y |-> X_test.part, scores |-> preds])
              /\ calls' = calls \o <<Call("roc_curve", i, "preds"),
                                     Call("roc_auc_score", i, "preds")>>
         ELSE UNCHANGED <<rocs, calls>>
    /\ i' = i + 1
    /\ pc' = "loop"
    /\ UNCHANGED <<env, flags, data, model, model_ctr, X_d, X_train, X_val,
                   X_test, preds, base_rocs, out, err>>

\* if plt: plt.rcParams[...] = ... ; otherwise the script ends
efp_if_plt ==
    /\ At("efp_example", "if_plt")
    /\ IF Truthy(plt)
         THEN /\ fig' = [fig EXCEPT !.rc = TRUE]
              /\ calls' = Append(calls, Call("rcParams", -1, "none"))
              /\ i' = 0
              /\ pc' = "plot_loop"
         ELSE /\ pc' = "done"
              /\ UNCHANGED <<fig, calls, i>>
    /\ UNCHANGED <<env, flags, data, model, model_ctr, X_d, X_train, X_val,
                   X_test, preds, curves, files, saved, err>>

\* for i,d in enumerate(range(1, dmax+1)):
\*     plt.plot(rocs[i][1], 1-rocs[i][0], '-', color=colors[i],
\*              label='LDA: d <= {} EFPs'.format(d))
efp_plot ==
    /\ At("efp_example", "plot_loop")
    /\ i < Len(Range(1, Efp_dmax + 1))
    /\ IF i < Len(rocs) /\ i < Len(Efp_colors)
         THEN /\ fig' = Plot(fig, rocs[i + 1], Efp_colors[i + 1],
                             Range(1, Efp_dmax + 1)[i + 1])
              /\ calls' = Append(calls, Call("plot", i, "rocs"))
              /\ i' = i + 1
              /\ UNCHANGED <<pc, err>>
         ELSE /\ err' = "IndexError" /\ pc' = "raised"
              /\ UNCHANGED <<fig, calls, i>>
    /\ UNCHANGED <<env, flags, data, model, model_ctr, X_d, X_train, X_val,
                   X_test, preds, curves, files, saved>>

\* after the plot loop: plt.xlabel, plt.ylabel, plt.xlim, plt.ylim, plt.legend
efp_axes ==
    /\ At("efp_example", "plot_loop")
    /\ i >= Len(Range(1, Efp_dmax + 1))
    /\ fig' = [fig EXCEPT !.labels = TRUE, !.limits = TRUE, !.legend = TRUE]
    /\ calls' = calls \o <<Call("xlabel", -1, "none"), Call("ylabel", -1, "none"),
                           Call("xlim", -1, "none"), Call("ylim", -1, "none"),
                           Call("legend", -1, "none")>>
    /\ pc' = "savefig"
    /\ UNCHANGED <<env, flags, data, sweep, curves, files, saved, err>>

\* plt.savefig("efp_example.jpg")
efp_savefig ==
    /\ At("efp_example", "savefig")
    /\ Savefig(Efp_file, script)
    /\ calls' = Append(calls, Call("savefig", -1, "none"))
    /\ pc' = "show"
    /\ UNCHANGED <<env, flags, data, sweep, curves, fig, err>>

\* plt.show()
efp_show ==
    /\ At("efp_example", "show")
    /\ fig' = [fig EXCEPT !.shown = TRUE]
    /\ calls' = Append(calls, Call("show", -1, "none"))
    /\ pc' = "done"
    /\ UNCHANGED <<env, flags, data, sweep, curves, files, saved, err>>

efp_example ==
    \/ efp_import_sklearn \/ efp_import_plt \/ efp_load \/ efp_efps
    \/ efp_build \/ efp_loop_exit \/ efp_select \/ efp_split \/ efp_fit
    \/ efp_predict \/ efp_roc \/ efp_if_plt \/ efp_plot \/ efp_axes
    \/ efp_savefig \/ efp_show

--------------------------------------------------------------------------
\* test_efp.py

\* efpset.sel(('d<=', d)), as in efp_example.py
TEfp_sel(cols, d) == {c \in cols : c <= d}

\* try: from sklearn.metrics import roc_auc_score, roc_curve
\* except: roc_curve = False
tefp_import_sklearn ==
    /\ At("test_efp", "import_sklearn")
    /\ roc_curve' = IF have_sklearn THEN "function" ELSE "False"
    /\ pc' = "import_plt"
    /\ UNCHANGED <<env, plt, data, sweep, curves, out, calls, err>>

\* try: import matplotlib.pyplot as plt
\* except: plt = False
tefp_import_plt ==
    /\ At("test_efp", "import_plt")
    /\ plt' = IF have_mpl THEN "module" ELSE "False"
    /\ pc' = "load"
    /\ UNCHANGED <<env, roc_curve, data, sweep, curves, out, calls, err>>

\* X, y = cepc.load(num_data)
tefp_load ==
    /\ At("test_efp", "load")
    /\ X' = [part |-> "full", feat |-> {}]
    /\ calls' = Append(calls, Call("load", -1, "none"))
    /\ pc' = "efps"
    /\ UNCHANGED <<env, flags, efpset, sweep, curves, out, err>>

\* efpset = ef.EFPSet(('d<=', dmax), ...); X = efpset.batch_compute(masked_X)
\* rocs = []
tefp_efps ==
    /\ At("test_efp", "efps")
    /\ efpset' = TEfp_dmax
    /\ X' = [part |-> X.part, feat |-> 0..TEfp_dmax]
    /\ calls' = calls \o <<Call("EFPSet", -1, "none"), Call("batch_compute", -1, "X")>>
    /\ rocs' = <<>>
    /\ i' = 0
    /\ pc' = "loop"
    /\ UNCHANGED <<env, flags, model, model_ctr, X_d, X_train, X_val, X_test,
                   preds, base_rocs, out, err>>

\* for d in range(1, dmax+1): model = LinearClassifier(linclass_type='lda')
tefp_build ==
    /\ At("test_efp", "loop")
    /\ i < Len(Range(1, TEfp_dmax + 1))
    /\ model_ctr' = model_ctr + 1
    /\ model' = [NoModel EXCEPT !.id = model_ctr + 1]
    /\ calls' = Append(calls, Call("LinearClassifier", i, "none"))
    /\ pc' = "select"
    /\ UNCHANGED <<env, flags, data, i, X_d, X_train, X_val, X_test, preds,
                   curves, out, err>>

\* the sweep loop is exhausted
tefp_loop_exit ==
    /\ At("test_efp", "loop")
    /\ i >= Len(Range(1, TEfp_dmax + 1))
    /\ pc' = "if_plt"
    /\ UNCHANGED <<env, flags, data, sweep, curves, out, calls, err>>

\* X_d = X[:,efpset.sel(('d<=', d))]
tefp_select ==
    /\ At("test_efp", "select")
    /\ X_d' = [part |-> X.part, feat |-> TEfp_sel(X.feat, Range(1, TEfp_dmax + 1)[i + 1])]
    /\ calls' = Append(calls, Call("sel", i, "X"))
    /\ pc' = "split"
    /\ UNCHANGED <<env, flags, data, i, model, model_ctr, X_train, X_val,
                   X_test, preds, curves, out, err>>

\* (X_train, X_test, y_train, y_test) = data_split(X_d, y, val=0, test=test_frac)
tefp_split ==
    /\ At("test_efp", "split")
    /\ X_train' = [part |-> "train", feat |-> X_d.feat]
    /\ X_test' = [part |-> "test", feat |-> X_d.feat]
    /\ calls' = Append(calls, Call("data_split", i, "X_d"))
    /\ pc' = "fit"
    /\ UNCHANGED <<env, flags, data, i, model, model_ctr, X_d, X_val, preds,
                   curves, out, err>>

\* model.fit(X_train, y_train)
tefp_fit ==
    /\ At("test_efp", "fit")
    /\ model' = [model EXCEPT !.fit_on = X_train]
    /\ calls' = Append(calls, Call("fit", i, "X_train"))
    /\ pc' = "predict"
    /\ UNCHANGED <<env, flags, data, i, model_ctr, X_d, X_train, X_val, X_test,
                   preds, curves, out, err>>

\* preds = model.predict(X_test)
tefp_predict ==
    /\ At("test_efp", "predict")
    /\ preds' = [model |-> model, on |-> X_test]
    /\ calls' = Append(calls, Call("predict", i, "X_test"))
    /\ pc' = "roc"
    /\ UNCHANGED <<env, flags, data, i, model, model_ctr, X_d, X_train, X_val,
                   X_test, curves, out, err>>

\* if roc_curve: rocs.append(roc_curve(y_test, preds[:,1]))
\*               auc = roc_auc_score(y_test, preds[:,1])
\* and the loop goes to its next d
tefp_roc ==
    /\ At("test_efp", "roc")
    /\ IF Truthy(roc_curve)
         THEN /\ rocs' = Append(rocs, [y |-> X_test.part, scores |-> preds])
              /\ calls' = calls \o <<Call("roc_curve", i, "preds"),
                                     Call("roc_auc_score", i, "preds")>>
         ELSE UNCHANGED <<rocs, calls>>
    /\ i' = i + 1
    /\ pc' = "loop"
    /\ UNCHANGED <<env, flags, data, model, model_ctr, X_d, X_train, X_val,
                   X_test, preds, base_rocs, out, err>>

\* if plt: plt.rcParams[...] = ... ; otherwise the script ends
tefp_if_plt ==
    /\ At("test_efp", "if_plt")
    /\ IF Truthy(plt)
         THEN /\ fig' = [fig EXCEPT !.rc = TRUE]
              /\ calls' = Append(calls, Call("rcParams", -1, "none"))
              /\ i' = 0
              /\ pc' = "plot_loop"
         ELSE /\ pc' = "done"
              /\ UNCHANGED <<fig, calls, i>>
    /\ UNCHANGED <<env, flags, data, model, model_ctr, X_d, X_train, X_val,
                   X_test, preds, curves, files, saved, err>>

\* for i,d in enumerate(range(1, dmax+1)):
\*     plt.plot(rocs[i][1], 1-rocs[i][0], '-', color=colors[i],
\*              label='LDA: d <= {} EFPs'.format(d))
tefp_plot ==
    /\ At("test_efp", "plot_loop")
    /\ i < Len(Range(1, TEfp_dmax + 1))
    /\ IF i < Len(rocs) /\ i < Len(TEfp_colors)
         THEN /\ fig' = Plot(fig, rocs[i + 1], TEfp_colors[i + 1],
                             Range(1, TEfp_dmax + 1)[i + 1])
              /\ calls' = Append(calls, Call("plot", i, "rocs"))
              /\ i' = i + 1
              /\ UNCHANGED <<pc, err>>
         ELSE /\ err' = "IndexError" /\ pc' = "raised"
              /\ UNCHANGED <<fig, calls, i>>
    /\ UNCHANGED <<env, flags, data, model, model_ctr, X_d, X_train, X_val,
                   X_test, preds, curves, files, saved>>

\* after the plot loop: plt.xlabel, plt.ylabel, plt.xlim, plt.ylim, plt.legend
tefp_axes ==
    /\ At("test_efp", "plot_loop")
    /\ i >= Len(Range(1, TEfp_dmax + 1))
    /\ fig' = [fig EXCEPT !.labels = TRUE, !.limits = TRUE, !.legend = TRUE]
    /\ calls' = calls \o <<Call("xlabel", -1, "none"), Call("ylabel", -1, "none"),
                           Call("xlim", -1, "none"), Call("ylim", -1, "none"),
                           Call("legend", -1, "none")>>
    /\ pc' = "show"
    /\ UNCHANGED <<env, flags, data, sweep, curves, files, saved, err>>

\* plt.show()
tefp_show ==
    /\ At("test_efp", "show")
    /\ fig' = [fig EXCEPT !.shown = TRUE]
    /\ calls' = Append(calls, Call("show", -1, "none"))
    /\ pc' = "savefig"
    /\ UNCHANGED <<env, flags, data, sweep, curves, files, saved, err>>

\* plt.savefig("cepc.jpg")
tefp_savefig ==
    /\ At("test_efp", "savefig")
    /\ Savefig(TEfp_file, script)
    /\ calls' = Append(calls, Call("savefig", -1, "none"))
    /\ pc' = "done"
    /\ UNCHANGED <<env, flags, data, sweep, curves, fig, err>>

test_efp ==
    \/ tefp_import_sklearn \/ tefp_import_plt \/ tefp_load \/ tefp_efps
    \/ tefp_build \/ tefp_loop_exit \/ tefp_select \/ tefp_split \/ tefp_fit
    \/ tefp_predict \/ tefp_roc \/ tefp_if_plt \/ tefp_plot \/ tefp_axes
    \/ tefp_show \/ tefp_savefig

--------------------------------------------------------------------------
\* test_cnn.py

Cnn_nb_chan == 2

\* try: from sklearn.metrics import roc_auc_score, roc_curve
\* except: roc_curve = False
cnn_import_sklearn ==
    /\ At("test_cnn", "import_sklearn")
    /\ roc_curve' = IF have_sklearn THEN "function" ELSE "False"
    /\ pc' = "import_plt"
    /\ UNCHANGED <<env, plt, data, sweep, curves, out, calls, err>>

\* try: import matplotlib.pyplot as plt
\* except: plt = False
cnn_import_plt ==
    /\ At("test_cnn", "import_plt")
    /\ plt' = IF have_mpl THEN "module" ELSE "False"
    /\ pc' = "load"
    /\ UNCHANGED <<env, roc_curve, data, sweep, curves, out, calls, err>>

\* X, y = cepc.load(num_data=num_data); Y = to_categorical(y, num_classes=2)
cnn_load ==
    /\ At("test_cnn", "load")
    /\ X' = [part |-> "full", feat |-> {}]
    /\ calls' = calls \o <<Call("load", -1, "none"), Call("to_categorical", -1, "y")>>
    /\ pc' = "images"
    /\ UNCHANGED <<env, flags, efpset, sweep, curves, out, err>>

\* images = np.asarray([pixelate(x, ..., nb_chan=nb_chan, ...) for x in X])
\* (the images are held in X_d, one column per channel)
cnn_images ==
    /\ At("test_cnn", "images")
    /\ X_d' = [part |-> X.part, feat |-> 0..(Cnn_nb_chan - 1)]
    /\ calls' = Append(calls, Call("pixelate", -1, "X"))
    /\ pc' = "split"
    /\ UNCHANGED <<env, flags, data, i, model, model_ctr, X_train, X_val,
                   X_test, preds, curves, out, err>>

\* (X_train, X_val, X_test, Y_train, Y_val, Y_test) =
\*     data_split(images, Y, val=val_frac, test=test_frac)
\* X_train, X_val, X_test = standardize(*zero_center(X_train, X_val, X_test))
cnn_split ==
    /\ At("test_cnn", "split")
    /\ X_train' = [part |-> "train", feat |-> X_d.feat]
    /\ X_val' = [part |-> "val", feat |-> X_d.feat]
    /\ X_test' = [part |-> "test", feat |-> X_d.feat]
    /\ calls' = calls \o <<Call("data_split", -1, "images"),
                           Call("zero_center", -1, "X_train"),
                           Call("standardize", -1, "X_train")>>
    /\ pc' = "build"
    /\ UNCHANGED <<env, flags, data, i, model, model_ctr, X_d, preds, curves,
                   out, err>>

\* cnn = CNN(hps)
cnn_build ==
    /\ At("test_cnn", "build")
    /\ model_ctr' = model_ctr + 1
    /\ model' = [NoModel EXCEPT !.id = model_ctr + 1, !.input_dim = Cnn_nb_chan]
    /\ calls' = Append(calls, Call("CNN", -1, "none"))
    /\ pc' = "fit"
    /\ UNCHANGED <<env, flags, data, i, X_d, X_train, X_val, X_test, preds,
                   curves, out, err>>

\* cnn.fit(X_train, Y_train, ..., validation_data=(X_val, Y_val), ...)
cnn_fit ==
    /\ At("test_cnn", "fit")
    /\ model' = [model EXCEPT !.fit_on = X_train, !.val_on = X_val]
    /\ calls' = Append(calls, Call("fit", -1, "X_train"))
    /\ pc' = "predict"
    /\ UNCHANGED <<env, flags, data, i, model_ctr, X_d, X_train, X_val, X_test,
                   preds, curves, out, err>>

\* preds = cnn.predict(X_test, batch_size=1000)
cnn_predict ==
    /\ At("test_cnn", "predict")
    /\ preds' = [model |-> model, on |-> X_test]
    /\ calls' = Append(calls, Call("predict", -1, "X_test"))
    /\ pc' = "roc"
    /\ UNCHANGED <<env, flags, data, i, model, model_ctr, X_d, X_train, X_val,
                   X_test, curves, out, err>>

\* if roc_curve: cnn_fp, cnn_tp, threshs = roc_curve(Y_test[:,1], preds[:,1])
\*               auc = roc_auc_score(Y_test[:,1], preds[:,1])
\*               if plt: ...
\* (the CNN curve is held in rocs)
cnn_roc ==
    /\ At("test_cnn", "roc")
    /\ IF Truthy(roc_curve)
         THEN /\ rocs' = <<[y |-> X_test.part, scores |-> preds]>>
              /\ calls' = calls \o <<Call("roc_curve", -1, "preds"),
                                     Call("roc_auc_score", -1, "preds")>>
              /\ pc' = IF Truthy(plt) THEN "baselines" ELSE "done"
         ELSE /\ pc' = "done"
              /\ UNCHANGED <<rocs, calls>>
    /\ UNCHANGED <<env, flags, data, sweep, base_rocs, out, err>>

\* cnn_baselines with the plot settings made before the baselines are computed
cnn_baselines_after_rc ==
    /\ At("test_cnn", "baselines")
    /\ base_rocs' = <<[y |-> X.part, scores |-> [model |-> NoModel, on |-> X]],
                      [y |-> X.part, scores |-> [model |-> NoModel, on |-> X]]>>
    /\ calls' = calls \o <<Call("rcParams", -1, "none"),
                           Call("ms_from_p4s", -1, "X"), Call("count_nonzero", -1, "X"),
                           Call("roc_curve", -1, "masses"), Call("roc_curve", -1, "mults")>>
    /\ pc' = "plot"
    /\ UNCHANGED <<env, flags, data, sweep, rocs, out, err>>

\* masses = np.asarray([ef.ms_from_p4s(...) for x in X])
\* mults = np.asarray([np.count_nonzero(x[:,0]) for x in X])
\* mass_fp, mass_tp, threshs = roc_curve(Y[:,1], -masses)
\* mult_fp, mult_tp, threshs = roc_curve(Y[:,1], -mults)
cnn_baselines ==
    /\ At("test_cnn", "baselines")
    /\ base_rocs' = <<[y |-> X.part, scores |-> [model |-> NoModel, on |-> X]],
                      [y |-> X.part, scores |-> [model |-> NoModel, on |-> X]]>>
    /\ calls' = calls \o <<Call("ms_from_p4s", -1, "X"), Call("count_nonzero", -1, "X"),
                           Call("roc_curve", -1, "masses"), Call("roc_curve", -1, "mults")>>
    /\ pc' = "plot"
    /\ UNCHANGED <<env, flags, data, sweep, rocs, out, err>>

\* plt.rcParams[...] = ...
\* plt.plot(cnn_tp, 1-cnn_fp, '-', color='black', label='CNN')
\* plt.plot(mass_tp, 1-mass_fp, '-', color='blue', label='Jet Mass')
\* plt.plot(mult_tp, 1-mult_fp, '-', color='red', label='Multiplicity')
cnn_plot ==
    /\ At("test_cnn", "plot")
    /\ fig' = Plot(Plot(Plot([fig EXCEPT !.rc = TRUE],
                             rocs[1], "black", "CNN"),
                        base_rocs[1], "blue", "Jet Mass"),
                   base_rocs[2], "red", "Multiplicity")
    /\ calls' = calls \o <<Call("rcParams", -1, "none"), Call("plot", -1, "cnn"),
                           Call("plot", -1, "mass"), Call("plot", -1, "mult")>>
    /\ pc' = "axes"
    /\ UNCHANGED <<env, flags, data, sweep, curves, files, saved, err>>

\* plt.xlabel, plt.ylabel, plt.xlim, plt.ylim, plt.legend
cnn_axes ==
    /\ At("test_cnn", "axes")
    /\ fig' = [fig EXCEPT !.labels = TRUE, !.limits = TRUE, !.legend = TRUE]
    /\ calls' = calls \o <<Call("xlabel", -1, "none"), Call("ylabel", -1, "none"),
                           Call("xlim", -1, "none"), Call("ylim", -1, "none"),
                           Call("legend", -1, "none")>>
    /\ pc' = "savefig"
    /\ UNCHANGED <<env, flags, data, sweep, curves, files, saved, err>>

\* plt.savefig("test_cnn.jpg")
cnn_savefig ==
    /\ At("test_cnn", "savefig")
    /\ Savefig(Cnn_file, script)
    /\ calls' = Append(calls, Call("savefig", -1, "none"))
    /\ pc' = "show"
    /\ UNCHANGED <<env, flags, data, sweep, curves, fig, err>>

\* plt.show()
cnn_show ==
    /\ At("test_cnn", "show")
    /\ fig' = [fig EXCEPT !.shown = TRUE]
    /\ calls' = Append(calls, Call("show", -1, "none"))
    /\ pc' = "done"
    /\ UNCHANGED <<env, flags, data, sweep, curves, files, saved, err>>

test_cnn ==
    \/ cnn_import_sklearn \/ cnn_import_plt \/ cnn_load \/ cnn_images
    \/ cnn_split \/ cnn_build \/ cnn_fit \/ cnn_predict \/ cnn_roc
    \/ cnn_baselines \/ cnn_plot \/ cnn_axes \/ cnn_savefig \/ cnn_show

--------------------------------------------------------------------------
Next == Start \/ dnn_example \/ efp_example \/ test_efp \/ test_cnn

Spec == Init /\ [][Next]_vars

--------------------------------------------------------------------------
\* Vocabulary of the properties

SweepScripts == {"dnn_example", "efp_example", "test_efp"}

\* the sweep values of a script, in the order of its sweep loop
SweepValues(s) ==
    CASE s = "dnn_example" -> Dnn_num_nsubs
      [] s = "efp_example" -> Range(1, Efp_dmax + 1)
      [] s = "test_efp" -> Range(1, TEfp_dmax + 1)
      [] OTHER -> <<>>

ColorsOf(s) ==
    CASE s = "dnn_example" -> Dnn_colors
      [] s = "efp_example" -> Efp_colors
      [] s = "test_efp" -> TEfp_colors
      [] OTHER -> <<>>

\* the feature columns that belong to sweep value v: the first v
\* N-subjettiness columns, or the EFPs of degree <= v
SubsetOf(s, v) == IF s = "dnn_example" THEN 0..(v - 1) ELSE 0..v

Constructors == {"DNN", "LinearClassifier", "CNN"}
TransformOps == {"to_categorical", "EFPSet", "batch_compute", "sel", "pixelate",
                 "zero_center", "standardize", "ms_from_p4s", "count_nonzero"}

\* an earlier call of op in sweep iteration it
Before(k, op, it) == \E j \in 1..(k - 1) : calls[j].op = op /\ calls[j].it = it

Called(op) == \E k \in 1..Len(calls) : calls[k].op = op

InSweep == pc \in {"loop", "select", "split", "fit", "predict", "roc"}
AfterSweep == pc \in {"if_plt", "plot_loop", "savefig", "show", "done"}

--------------------------------------------------------------------------
\* C1: no script raises, whatever combination of scikit-learn and matplotlib
\* is importable: no run ends in an exception.
C1_NoScriptRaises == err = "none"

\* C2: roc_curve and roc_auc_score are called only if the scikit-learn import
\* succeeded, plt is used only if the matplotlib import succeeded; a failed
\* import sets the flag to False, and the flag is not changed for the rest of
\* the run.
C2_Guarded ==
    /\ \A k \in 1..Len(calls) :
          /\ calls[k].op \in MetricOps => have_sklearn /\ roc_curve = "function"
          /\ calls[k].op \in PlotOps => have_mpl /\ plt = "module"
    /\ (script # "none" /\ pc # "import_sklearn" /\ ~have_sklearn) => roc_curve = "False"
    /\ (script # "none" /\ pc \notin {"import_sklearn", "import_plt"} /\ ~have_mpl)
          => plt = "False"

C2_FlagKept ==
    runs' = runs => /\ roc_curve = "False" => roc_curve' = "False"
                    /\ plt = "False" => plt' = "False"

C2_OptionalDependencies == [](C2_Guarded) /\ [][C2_FlagKept]_vars

C2_Witness ==
    /\ script = "dnn_example" /\ pc = "done"
    /\ ~have_sklearn /\ have_mpl
    /\ roc_curve = "False" /\ Called("savefig") /\ ~Called("roc_curve")

\* C3: the data is loaded before anything is computed from it, a model is
\* fitted after the split of its iteration, predicts after its fit, a ROC
\* curve is computed after the predictions (or the baseline observable) it
\* uses, and once the first plotting call is made only plotting calls follow.
C3_LinearOrder ==
    \A k \in 1..Len(calls) :
       LET c == calls[k] IN
       /\ c.op \in TransformOps \cup {"data_split"} => Before(k, "load", -1)
       /\ (c.op = "data_split" /\ c.arg = "X_d") => Before(k, "sel", c.it)
       /\ (c.op = "data_split" /\ c.arg = "images") => Before(k, "pixelate", c.it)
       /\ c.op = "fit" => Before(k, "data_split", c.it)
       /\ c.op = "predict" => Before(k, "fit", c.it)
       /\ (c.op \in MetricOps /\ c.arg = "preds") => Before(k, "predict", c.it)
       /\ (c.op = "roc_curve" /\ c.arg = "masses") => Before(k, "ms_from_p4s", c.it)
       /\ (c.op = "roc_curve" /\ c.arg = "mults") => Before(k, "count_nonzero", c.it)
       /\ (c.op \in PlotOps /\ k < Len(calls)) => calls[k + 1].op \in PlotOps

C3_Witness ==
    /\ script = "test_cnn" /\ pc = "done"
    /\ Len(base_rocs) = 2 /\ Called("roc_curve") /\ Called("show")

\* C4: in a sweep script one fresh model is constructed per sweep value, the
\* sweep values are visited in increasing order, and the model of a sweep
\* value is fitted and asked for predictions on the feature subset of that
\* value (dnn_example.py: input_dim is the sweep value).
C4_OneModelPerSweepValue ==
    script \in SweepScripts =>
       LET sv == SweepValues(script) IN
       /\ \A a, b \in 1..Len(sv) : a < b => sv[a] < sv[b]
       /\ \A k \in 0..(Len(sv) - 1) :
             /\ Cardinality({j \in 1..Len(calls) :
                    calls[j].op \in Constructors /\ calls[j].it = k})
                  = IF k < model_ctr THEN 1 ELSE 0
             /\ Cardinality({j \in 1..Len(calls) :
                    calls[j].op = "fit" /\ calls[j].it = k}) <= 1
       /\ pc = "loop" => model_ctr = i
       /\ pc \in {"select", "split", "fit"} =>
             /\ model.id = i + 1 /\ model_ctr = i + 1
             /\ model.fit_on = NoData
       /\ pc \in {"predict", "roc"} =>
             /\ model.id = i + 1
             /\ model.fit_on = [part |-> "train", feat |-> SubsetOf(script, sv[i + 1])]
             /\ script = "dnn_example" => model.input_dim = sv[i + 1]
       /\ pc = "roc" =>
             /\ preds.model = model
             /\ preds.on.feat = SubsetOf(script, sv[i + 1])

C4_Witness ==
    /\ script = "efp_example" /\ pc = "roc" /\ i = 2
    /\ model.id = 3 /\ model.fit_on.feat = {0, 1, 2, 3}

\* C5: test_efp.py builds the EFP set for d <= 5 and trains classifiers for
\* d = 1..5.
C5_DefaultDmax ==
    script = "test_efp" =>
       /\ efpset # -1 => efpset = 5
       /\ AfterSweep => model_ctr = 5

\* C6: with scikit-learn, after k sweep iterations rocs holds k entries,
\* entry j being the curve of the model of the j-th sweep value; the plot
\* gets one curve per trained classifier, curve j labelled with the j-th
\* sweep value.
C6_OneCurvePerModel ==
    (script \in SweepScripts /\ have_sklearn) =>
       LET sv == SweepValues(script) IN
       /\ InSweep => Len(rocs) = i
       /\ AfterSweep => Len(rocs) = Len(sv) /\ Len(rocs) = model_ctr
       /\ \A j \in 1..Len(rocs) :
             /\ rocs[j].scores.model.id = j
             /\ rocs[j].scores.model.fit_on.feat = SubsetOf(script, sv[j])
       /\ Len(fig.curves) <= Len(rocs)
       /\ \A j \in 1..Len(fig.curves) :
             /\ fig.curves[j].roc = rocs[j]
             /\ fig.curves[j].label = sv[j]
       /\ fig.legend => Len(fig.curves) = model_ctr

C6_Witness ==
    /\ script = "dnn_example" /\ have_sklearn /\ pc = "done"
    /\ Len(rocs) = 6 /\ Len(fig.curves) = 6 /\ fig.curves[6].label = 32

\* C7: plt.savefig precedes plt.show in every script.
C7_SaveBeforeShow ==
    \A k \in 1..Len(calls) : calls[k].op = "show" => Before(k, "savefig", -1)

\* C8 as stated: every plotted ROC curve is computed from the test partition
\* only, by a model that was fitted on the train partition.
C8_AllCurvesFromTest ==
    \A j \in 1..Len(fig.curves) :
       LET r == fig.curves[j].roc IN
       /\ r.y = "test" /\ r.scores.on.part = "test"
       /\ r.scores.model.fit_on.part = "train"

\* C8 amended: every plotted ROC curve of a trained model is computed from
\* the test partition only, the model having been fitted on the train
\* partition of the same columns (validation data, if any, being the
\* validation partition); the curves that use no model, the jet-mass and
\* multiplicity baselines of test_cnn.py, are computed from the full dataset.
C8_ModelCurvesFromTest ==
    \A j \in 1..Len(fig.curves) :
       LET r == fig.curves[j].roc IN
       IF r.scores.model.id # 0
         THEN /\ r.y = "test" /\ r.scores.on.part = "test"
              /\ r.scores.model.fit_on = [part |-> "train", feat |-> r.scores.on.feat]
              /\ r.scores.model.val_on.part \in {"val", "none"}
         ELSE /\ script = "test_cnn" /\ j \in {2, 3}
              /\ r.y = "full" /\ r.scores.on.part = "full"

C8_Witness ==
    /\ script = "test_cnn" /\ Len(fig.curves) = 3
    /\ fig.curves[1].roc.y = "test" /\ fig.curves[2].roc.y = "full"

\* C9: in a sweep script every index used by the plot loop is an index of
\* colors and of the sweep list, the plotted curves have pairwise different
\* colours, and there is a colour for every sweep value.
C9_ColourIndices ==
    script \in SweepScripts =>
       LET sv == SweepValues(script)
           colors == ColorsOf(script) IN
       /\ Len(sv) <= Len(colors)
       /\ (pc = "plot_loop" /\ i < (IF script = "dnn_example" THEN Len(rocs) ELSE Len(sv)))
             => i < Len(colors) /\ i < Len(sv)
       /\ \A j \in 1..Len(fig.curves) :
             /\ j <= Len(colors) /\ j <= Len(sv)
             /\ fig.curves[j].color = colors[j]
       /\ \A a, b \in 1..Len(fig.curves) :
             a # b => fig.curves[a].color # fig.curves[b].color

C9_Witness ==
    /\ script = "efp_example" /\ pc = "show"
    /\ Len(fig.curves) = 5 /\ fig.curves[5].color = "tab:blue"

\* C10: the scripts write pairwise different files, a script writes at most
\* one file, and a file is written by one script only, however often and in
\* whatever order the scripts are run.
C10_IndependentOutputs ==
    /\ Cardinality(FileNames) = Cardinality(Scripts)
    /\ \A f \in FileNames : Cardinality(files[f]) <= 1
    /\ \A s \in Scripts : Cardinality({f \in FileNames : s \in files[f]}) <= 1
    /\ \A f \in FileNames : saved[f] # NoFig => files[f] # {}

C10_Witness ==
    /\ runs = 2
    /\ \E f, g \in FileNames : f # g /\ files[f] # {} /\ files[g] # {}
====
